---- MODULE Spec2Model ----
(***************************************************************************)
(* State-machine model of gemini_parser.DocumentProcessor: one call of     *)
(* process_file on a local path, the PDF pipeline behind it (_split_pdf,   *)
(* the ThreadPoolExecutor fan-out of _process_pdf_chunk, the as_completed  *)
(* fan-in and the merge of _process_large_pdf) and the direct path of      *)
(* _process_non_pdf; its callers process_from_url and process_folder; and  *)
(* the cache operations of CachingManager with DocumentProcessor's         *)
(* delete_cache on top of them.                                            *)
(***************************************************************************)
EXTENDS Integers, Sequences, FiniteSets, Bags, TLC

(* ------------------------------ bounds -------------------------------- *)

\* Largest page count of the input document in the pipeline (Spec).
MaxPages == 5
\* Largest pages_per_chunk tried in the pipeline; the smallest positive one
\* is 2, so that a document has at most three chunks running concurrently
\* (0 and -1 are tried as well; SpecSplit plans with every size from 1).
MaxPagesPerChunk == 3
\* Largest max_threads tried (0 is tried as well).
MaxThreads == 2
\* Largest max_retries tried (0 is tried as well).
MaxRetries == 2
\* Largest page count and chunk size the planner alone is run on (SpecSplit).
MaxPlanPages == 7
MaxPlanChunk == 4
\* Largest page count of the document behind the URL (SpecUrl).
MaxUrlPages == 3
\* Largest number of entries of the folder given to process_folder.
MaxFolderFiles == 2
\* Largest number of cache operations in one session (SpecCache).
MaxCacheOps == 3
\* Largest page count and max_retries of the pipeline run under fair
\* scheduling (SpecLive); chunks hold two pages there.
MaxLivePages == 5
MaxLiveRetries == 1
\* Largest page count of the document processed with and without the
\* cache arguments (SpecFlag); chunks hold two pages there.
MaxFlagPages == 3
\* Largest |hours| given to update_cache_ttl, in fourteenths of an hour
\* (SpecTtl): 28 is 2.0 hours, 7 is 0.5 hours, 1 is 257.14... seconds.
MaxHourParts == 28

(* ------------------------------ values -------------------------------- *)

\* Python's None and a present value, for slots that hold an optional string.
None == <<>>
Some(v) == <<v>>

\* What the remote service transcribes from chunk i: chunks differ in content.
Transcript(i) == <<"a", "b", "c">>[((i - 1) % 3) + 1]

\* response.text of a successful call on chunk i: the transcript, or the
\* empty text of a response that carries no text part.
Replies(i) == {"", Transcript(i)}

\* Suffixes of the input path: the PDF route, an allowed non-PDF, and one
\* outside allowed_extensions.
Suffixes == {".pdf", ".txt", ".xyz"}

\* self.allowed_extensions, suffix to MIME type: the PDF entry and one of the
\* text entries.
allowed_extensions == (".pdf" :> "application/pdf") @@ (".txt" :> "text/plain")

\* Why an attempt of _process_pdf_chunk can fail inside its try block.
ReadError == "OSError"
RemoteError == "APIError"

VARIABLES
    pages_per_chunk,  \* self.pages_per_chunk
    max_threads,      \* self.max_threads
    max_retries,      \* self.max_retries
    file_exists,      \* file_path.exists()
    suffix,           \* file_path.suffix.lower()
    total_pages,      \* len(reader.pages) of the input when it is a PDF
    use_cache,        \* argument use_cache of process_file
    cache_ttl,        \* argument cache_ttl of process_file (None or hours)
    pc,               \* position of the calling thread
    chunk_paths,      \* list returned by _split_pdf: one record per chunk
    temp_files,       \* chunk files currently on disk (by chunk number)
    created,          \* chunk files this call has ever created
    queue,            \* executor work queue: submitted, not yet started
    jobs,             \* one future per chunk, with its worker's progress
    results,          \* the slot array `results` of _process_large_pdf
    yielded,          \* indices of the futures as_completed has handed over
    reordered,        \* some future was handed over before a lower-indexed one
    result,           \* value returned by process_file (None before return)
    error,            \* exception that left process_file ("" if none)
    planned,          \* number of _split_pdf calls
    remote_calls,     \* number of generate_content calls
    log,              \* bag of logged events
    writes,           \* how many times each slot of `results` was assigned
    entry,            \* position of the caller of process_file ("": none)
    resp,             \* process_from_url: how httpx.get(url) ended
    temp_file,        \* process_from_url: state of temp_dir/remote_file.pdf
    folder_exists,    \* process_folder: folder_path exists and is a directory
    files,            \* process_folder: the folder's entries, then those kept
    next_file,        \* process_folder: position of the loop over files
    out_files,        \* process_folder: inputs whose .txt output was written
    caches,           \* names of the caches alive at the remote service
    cache_call,       \* the cache operation in progress or last finished
    ops               \* number of cache operations started

vars == <<pages_per_chunk, max_threads, max_retries, file_exists, suffix,
          total_pages, use_cache, cache_ttl, pc, chunk_paths, temp_files, created, queue, jobs,
          results, yielded, reordered, result, error, planned, remote_calls,
          log, writes, entry, resp, temp_file, folder_exists, files,
          next_file, out_files, caches, cache_call, ops>>

\* State of the callers of process_file and of the cache operations, which
\* one call of process_file leaves alone.
outside == <<entry, resp, temp_file, folder_exists, files, next_file,
             out_files, caches, cache_call, ops>>

\* The same without the count of cache operations.
outsideButOps == <<entry, resp, temp_file, folder_exists, files, next_file,
                   out_files, caches, cache_call>>

config == <<pages_per_chunk, max_threads, max_retries, file_exists, suffix,
            total_pages, use_cache, cache_ttl>>

(* ----------------------------- helpers -------------------------------- *)

Min(a, b) == IF a < b THEN a ELSE b

\* Python's range(start, stop, step) for step # 0, as a sequence.
RECURSIVE Range(_, _, _)
Range(start, stop, step) ==
    IF (step > 0 /\ start < stop) \/ (step < 0 /\ start > stop)
    THEN <<start>> \o Range(start + step, stop, step)
    ELSE <<>>

\* min(start + self.pages_per_chunk, total_pages): the exclusive last page.
ChunkStopUnclamped(start, c, p) == start + c
ChunkStop(start, c, p) == Min(start + c, p)

\* The chunks _split_pdf writes for p pages and chunk size c # 0: page range
\* [start, stop) and the number used in the chunk's file name.
SplitPdfChunks(p, c) ==
    LET starts == Range(0, p, c)
    IN  [k \in 1..Len(starts) |->
            [start |-> starts[k],
             stop  |-> ChunkStop(starts[k], c, p),
             num   |-> (starts[k] \div c) + 1]]

\* filter(None, results): a slot counts when it is neither None nor "".
Truthy(slot) == slot # None /\ slot[1] # ""

\* "\n\n".join(xs) for a sequence of strings.
RECURSIVE Join(_)
Join(xs) ==
    IF Len(xs) = 0 THEN ""
    ELSE IF Len(xs) = 1 THEN xs[1]
    ELSE xs[1] \o "\n\n" \o Join(Tail(xs))

\* The truthy slots of a slot sequence, unwrapped, in index order.
RECURSIVE FilterNone(_)
FilterNone(slots) ==
    IF Len(slots) = 0 THEN <<>>
    ELSE (IF Truthy(slots[1]) THEN <<slots[1][1]>> ELSE <<>>)
         \o FilterNone(Tail(slots))

\* All slots unwrapped, None read as "" (no filtering).
RECURSIVE Unwrap(_)
Unwrap(slots) ==
    IF Len(slots) = 0 THEN <<>>
    ELSE <<IF slots[1] = None THEN "" ELSE slots[1][1]>> \o Unwrap(Tail(slots))

\* "\n\n".join(filter(None, results))
MergeNoFilter(slots) == Join(Unwrap(slots))
Merge(slots) == Join(FilterNone(slots))

\* One logged event: level, kind, chunk index (0: none), attempt (0: none).
Event(level, kind, idx, attempt) == <<level, kind, idx, attempt>>
Logged(e) == log (+) SetToBag({e})

(* ------------------------------- Init --------------------------------- *)

\* A submitted job: where its _process_pdf_chunk call stands (pending, try,
\* sleep, then succeeded: returned response.text, failed: returned "" after
\* the loop, or raised), and what it has done so far.
NewJob == [st |-> "pending", attempt |-> 0, calls |-> 0, sleeps |-> 0,
           ret |-> None, runners |-> 0, starts |-> 0]

Terminal == {"succeeded", "failed", "raised"}

\* What a call of process_file starts from: nothing planned, nothing on
\* disk, no job, no result yet.
Fresh ==
    /\ chunk_paths = <<>>
    /\ temp_files = {}
    /\ created = {}
    /\ queue = <<>>
    /\ jobs = <<>>
    /\ results = <<>>
    /\ yielded = {}
    /\ reordered = FALSE
    /\ result = None
    /\ error = ""
    /\ planned = 0
    /\ remote_calls = 0
    /\ writes = <<>>

\* The configuration of the processor and the file handed to process_file.
Inputs(chunk_sizes, threads, retries, paths, suffixes, pages) ==
    /\ pages_per_chunk \in chunk_sizes
    /\ max_threads \in threads
    /\ max_retries \in retries
    /\ file_exists \in paths
    /\ suffix \in suffixes
    /\ total_pages \in (IF file_exists /\ suffix = ".pdf" THEN pages ELSE {0})

\* use_cache: bool = False, cache_ttl: Optional[int] = None
DefaultArgs ==
    /\ use_cache = FALSE
    /\ cache_ttl = None

\* process_file is not called through process_from_url or process_folder.
NoCaller ==
    /\ entry = ""
    /\ resp = ""
    /\ temp_file = "none"
    /\ folder_exists = FALSE
    /\ files = <<>>
    /\ next_file = 0
    /\ out_files = {}

\* No cache operation is made.
NoCache ==
    /\ caches = {}
    /\ cache_call = None
    /\ ops = 0

\* The state at the call of process_file, for given sets of configurations
\* and inputs, whatever its cache arguments: nothing planned, nothing on
\* disk, nothing logged.
Begin(chunk_sizes, threads, retries, paths, suffixes, pages) ==
    /\ Inputs(chunk_sizes, threads, retries, paths, suffixes, pages)
    /\ pc = "process_file"
    /\ Fresh
    /\ log = EmptyBag
    /\ NoCaller
    /\ NoCache

\* The same, called with the default cache arguments.
Start(chunk_sizes, threads, retries, paths, suffixes, pages) ==
    /\ Begin(chunk_sizes, threads, retries, paths, suffixes, pages)
    /\ DefaultArgs

Init ==
    Start({-1, 0} \cup 2..MaxPagesPerChunk, 0..MaxThreads, 0..MaxRetries,
          BOOLEAN, Suffixes, 0..MaxPages)

\* The planner alone: an existing PDF of every page count and chunk size.
InitSplit ==
    Start(-2..MaxPlanChunk, {1}, {1}, {TRUE}, {".pdf"}, 0..MaxPlanPages)

(* --------------------------- process_file ----------------------------- *)

\* `if not file_path.exists()`
PathMissingNever(exists) == FALSE
PathMissing(exists) == ~exists

\* process_file on a missing path: logs the error and returns "".
ProcessFileMissing ==
    /\ pc = "process_file"
    /\ PathMissing(file_exists)
    /\ log' = Logged(Event("error", "file_missing", 0, 0))
    /\ result' = Some("")
    /\ pc' = "returned"
    /\ UNCHANGED <<config, outside, chunk_paths, temp_files, created, queue, jobs,
                   results, yielded, writes, reordered, error, planned, remote_calls>>

\* cache_ttl as it shows in a log message (0 for None).
TtlShown(ttl) == IF ttl = None THEN 0 ELSE ttl[1]

\* The `if use_cache:` block before the processing: what it logs, the cache
\* operations it makes, and the cached text it returns in place of the
\* processing (None: the file is processed). It only logs.
CacheLookupImplemented(flag) ==
    [events    |-> EmptyBag,
     cache_ops |-> IF flag THEN 1 ELSE 0,
     hit       |-> IF flag THEN Some("a") ELSE None]
CacheLookup(flag) ==
    [events    |-> IF flag
                   THEN SetToBag({Event("info", "cache_requested", 0, 0)})
                   ELSE EmptyBag,
     cache_ops |-> 0,
     hit       |-> None]

\* The `if use_cache and result:` block after the processing: what it logs
\* and the cache operations it makes. It only logs.
CacheStore(flag, text, ttl) ==
    [events    |-> IF flag /\ text # ""
                   THEN SetToBag({Event("info", "storing_result", 0, TtlShown(ttl))})
                   ELSE EmptyBag,
     cache_ops |-> 0]

\* process_file on a present path: the cache block, then the route on the
\* suffix.
ProcessFileRoute ==
    /\ pc = "process_file"
    /\ ~PathMissing(file_exists)
    /\ LET lookup == CacheLookup(use_cache)
       IN  /\ log' = log (+) lookup.events
           /\ ops' = ops + lookup.cache_ops
           /\ IF lookup.hit = None
              THEN /\ pc' = IF suffix = ".pdf" THEN "split_pdf" ELSE "non_pdf"
                   /\ result' = result
              ELSE /\ pc' = "returned"
                   /\ result' = lookup.hit
    /\ UNCHANGED <<config, outsideButOps, chunk_paths, temp_files, created,
                   queue, jobs, results, yielded, writes, reordered, error,
                   planned, remote_calls>>

(* ----------------------------- _split_pdf ----------------------------- *)

\* The call leaves process_file with an exception: nothing catches it on the
\* way out of _split_pdf, _process_large_pdf or process_file.
Raise(exc) ==
    /\ pc' = "raised"
    /\ error' = exc

\* PdfReader(file_path) raises: the file is missing or is no readable PDF.
SplitPdfUnreadable ==
    /\ pc = "split_pdf"
    /\ planned' = planned + 1
    /\ Raise("PdfReadError")
    /\ UNCHANGED <<config, outside, chunk_paths, temp_files, created, queue, jobs,
                   results, yielded, writes, reordered, result, remote_calls, log>>

\* range(0, total_pages, 0) raises ValueError before any chunk is written.
SplitPdfZeroStep ==
    /\ pc = "split_pdf"
    /\ file_exists
    /\ pages_per_chunk = 0
    /\ planned' = planned + 1
    /\ Raise("ValueError")
    /\ UNCHANGED <<config, outside, chunk_paths, temp_files, created, queue, jobs,
                   results, yielded, writes, reordered, result, remote_calls, log>>

\* Writing chunk k raises: the chunks before it are on disk, and chunk k's
\* file too when open() had succeeded and writer.write failed.
SplitPdfWriteFails ==
    /\ pc = "split_pdf"
    /\ file_exists
    /\ pages_per_chunk # 0
    /\ LET chunks == SplitPdfChunks(total_pages, pages_per_chunk)
       IN  \E k \in 1..Len(chunks), opened \in BOOLEAN :
             LET written == {chunks[j].num : j \in 1..(k - 1)}
                              \cup (IF opened THEN {chunks[k].num} ELSE {})
             IN  /\ temp_files' = written
                 /\ created' = written
    /\ planned' = planned + 1
    /\ Raise("OSError")
    /\ UNCHANGED <<config, outside, chunk_paths, queue, jobs, results, yielded, writes, reordered, result,
                   remote_calls, log>>

\* _split_pdf returns the list of chunk files, one per page range.
SplitPdfOk ==
    /\ pc = "split_pdf"
    /\ file_exists
    /\ pages_per_chunk # 0
    /\ LET chunks == SplitPdfChunks(total_pages, pages_per_chunk)
       IN  /\ chunk_paths' = chunks
           /\ temp_files' = {chunks[j].num : j \in 1..Len(chunks)}
           /\ created' = {chunks[j].num : j \in 1..Len(chunks)}
    /\ planned' = planned + 1
    /\ pc' = "create_pool"
    /\ UNCHANGED <<config, outside, queue, jobs, results, yielded, writes, reordered, result, error,
                   remote_calls, log>>

(* -------------------------- _process_non_pdf -------------------------- *)

\* file_path.read_bytes() raises.
NonPdfReadFails ==
    /\ pc = "non_pdf"
    /\ Raise(ReadError)
    /\ UNCHANGED <<config, outside, chunk_paths, temp_files, created, queue, jobs,
                   results, yielded, writes, reordered, result, planned, remote_calls, log>>

\* generate_content raises: nothing catches it.
NonPdfRemoteFails ==
    /\ pc = "non_pdf"
    /\ file_exists
    /\ remote_calls' = remote_calls + 1
    /\ Raise(RemoteError)
    /\ UNCHANGED <<config, outside, chunk_paths, temp_files, created, queue, jobs,
                   results, yielded, writes, reordered, result, planned, log>>

\* generate_content answers: process_file goes through its second cache
\* block and returns response.text.
NonPdfOk ==
    /\ pc = "non_pdf"
    /\ file_exists
    /\ \E t \in Replies(1) :
         LET store == CacheStore(use_cache, t, cache_ttl)
         IN  /\ result' = Some(t)
             /\ log' = log (+) store.events
             /\ ops' = ops + store.cache_ops
    /\ remote_calls' = remote_calls + 1
    /\ pc' = "returned"
    /\ UNCHANGED <<config, outsideButOps, chunk_paths, temp_files, created,
                   queue, jobs, results, yielded, writes, reordered, error,
                   planned>>

(* ------------------- _process_large_pdf: the pool --------------------- *)

NumChunks == Len(chunk_paths)

\* ThreadPoolExecutor(max_workers=0 or less) raises ValueError; the chunk
\* files written by _split_pdf stay where they are.
PoolRejected ==
    /\ pc = "create_pool"
    /\ max_threads <= 0
    /\ results' = [i \in 1..NumChunks |-> None]
    /\ writes' = [i \in 1..NumChunks |-> 0]
    /\ Raise("ValueError")
    /\ UNCHANGED <<config, outside, chunk_paths, temp_files, created, queue, jobs,
                   yielded, reordered, result, planned, remote_calls, log>>

\* The dict comprehension submits one job per chunk, in list order.
SubmitAll ==
    /\ pc = "create_pool"
    /\ max_threads > 0
    /\ results' = [i \in 1..NumChunks |-> None]
    /\ writes' = [i \in 1..NumChunks |-> 0]
    /\ jobs' = [i \in 1..NumChunks |-> NewJob]
    /\ queue' = [i \in 1..NumChunks |-> i]
    /\ pc' = "as_completed"
    /\ UNCHANGED <<config, outside, chunk_paths, temp_files, created, yielded, reordered, result,
                   error, planned, remote_calls, log>>

\* Number of _process_pdf_chunk calls in progress, over all workers.
RECURSIVE SumRunners(_, _)
SumRunners(js, n) == IF n = 0 THEN 0 ELSE js[n].runners + SumRunners(js, n - 1)
Executing == SumRunners(jobs, Len(jobs))

\* The pool holds at most max_workers threads, each running one work item.
HasIdleWorkerOffByOne(running, w) == running <= w
HasIdleWorkerButOne(running, w) == running + 1 < w
HasIdleWorker(running, w) == running < w

\* A worker removes the work item it takes from the queue.
DequeueKeeps(q) == q
Dequeue(q) == Tail(q)

\* An idle worker takes the oldest queued job and enters _process_pdf_chunk.
WorkerStart ==
    /\ pc = "as_completed"
    /\ queue # <<>>
    /\ HasIdleWorker(Executing, max_threads)
    /\ LET i == Head(queue)
       IN  jobs' = [jobs EXCEPT ![i].st = "try",
                                ![i].runners = @ + 1,
                                ![i].starts = @ + 1]
    /\ queue' = Dequeue(queue)
    /\ UNCHANGED <<config, outside, pc, chunk_paths, temp_files, created, results,
                   yielded, writes, reordered, result, error, planned, remote_calls, log>>

(* ------------------------- _process_pdf_chunk ------------------------- *)

\* range(1, self.max_retries + 1): the number of attempts the loop allows.
AttemptLimitOneMore(r) == r + 1
AttemptLimit(r) == r

\* `except Exception` catches whatever the try block raised.
CaughtRemoteOnly(exc) == exc = RemoteError
Caught(exc) == TRUE

\* One attempt of job i fails with exc; a remote failure has made its call.
AttemptFails(i, exc) ==
    /\ i \in 1..Len(jobs)
    /\ jobs[i].st = "try"
    /\ jobs[i].attempt < AttemptLimit(max_retries)
    /\ LET called == IF exc = RemoteError THEN 1 ELSE 0
       IN  /\ remote_calls' = remote_calls + called
           /\ IF Caught(exc)
              THEN /\ jobs' = [jobs EXCEPT ![i].attempt = @ + 1,
                                           ![i].calls = @ + called,
                                           ![i].st = "sleep"]
                   /\ log' = Logged(Event("warning", "attempt_failed", i,
                                          jobs[i].attempt + 1))
              ELSE /\ jobs' = [jobs EXCEPT ![i].attempt = @ + 1,
                                           ![i].calls = @ + called,
                                           ![i].st = "raised",
                                           ![i].runners = @ - 1]
                   /\ log' = log
    /\ UNCHANGED <<config, outside, pc, chunk_paths, temp_files, created, queue,
                   results, yielded, writes, reordered, result, error, planned>>

\* chunk_path.read_bytes() raises inside the try block: no remote call.
AttemptReadFails == \E i \in 1..Len(jobs) : AttemptFails(i, ReadError)

\* generate_content raises inside the try block.
AttemptRemoteFails == \E i \in 1..Len(jobs) : AttemptFails(i, RemoteError)

\* generate_content answers: the job returns response.text at once.
AttemptSucceeds ==
    \E i \in 1..Len(jobs) : \E t \in Replies(i) :
      /\ jobs[i].st = "try"
      /\ jobs[i].attempt < AttemptLimit(max_retries)
      /\ jobs' = [jobs EXCEPT ![i].attempt = @ + 1,
                              ![i].calls = @ + 1,
                              ![i].st = "succeeded",
                              ![i].ret = Some(t),
                              ![i].runners = @ - 1]
      /\ remote_calls' = remote_calls + 1
      /\ UNCHANGED <<config, outside, pc, chunk_paths, temp_files, created, queue,
                     results, yielded, writes, reordered, result, error, planned, log>>

\* time.sleep(self.retry_delay) in the except block returns.
SleepEnds ==
    \E i \in 1..Len(jobs) :
      /\ jobs[i].st = "sleep"
      /\ jobs' = [jobs EXCEPT ![i].sleeps = @ + 1, ![i].st = "try"]
      /\ UNCHANGED <<config, outside, pc, chunk_paths, temp_files, created, queue,
                     results, yielded, writes, reordered, result, error, planned, remote_calls,
                     log>>

\* The loop is over without a success: `return ""`.
Exhausted ==
    \E i \in 1..Len(jobs) :
      /\ jobs[i].st = "try"
      /\ jobs[i].attempt >= AttemptLimit(max_retries)
      /\ jobs' = [jobs EXCEPT ![i].st = "failed",
                              ![i].ret = Some(""),
                              ![i].runners = @ - 1]
      /\ UNCHANGED <<config, outside, pc, chunk_paths, temp_files, created, queue,
                     results, yielded, writes, reordered, result, error, planned, remote_calls,
                     log>>

(* ----------------- _process_large_pdf: fan-in and merge --------------- *)


\* results[idx] = ...: the slot a finished future is stored in.
SlotByCompletion(idx, nth) == nth
SlotFor(idx, nth) == idx

\* as_completed yields each finished future once.
NotYieldedForgotten(i, done) == TRUE
NotYielded(i, done) == i \notin done

\* as_completed hands over a finished future; its value, or "" when it
\* raised, goes into the slot of its index.
Collect ==
    \E i \in 1..Len(jobs) :
      /\ pc = "as_completed"
      /\ jobs[i].st \in Terminal
      /\ NotYielded(i, yielded)
      /\ LET slot == SlotFor(i, Cardinality(yielded) + 1)
         IN  /\ IF jobs[i].st # "raised"
                THEN /\ results' = [results EXCEPT ![slot] = jobs[i].ret]
                     /\ log' = log
                ELSE /\ results' = [results EXCEPT ![slot] = Some("")]
                     /\ log' = Logged(Event("error", "chunk_failed", i, 0))
             /\ writes' = [writes EXCEPT ![slot] = @ + 1]
      /\ yielded' = yielded \cup {i}
      /\ reordered' = (reordered \/ \E j \in 1..(i - 1) : j \notin yielded)
      /\ UNCHANGED <<config, outside, pc, chunk_paths, created, temp_files, queue,
                     jobs, result, error, planned, remote_calls>>

\* as_completed is exhausted: the pool shuts down, every chunk.unlink() is
\* tried (a failing unlink is swallowed and leaves its file; at most one
\* failing unlink per call is explored), and the merged text is returned
\* through the second cache block of process_file.
MergeAndReturn ==
    /\ pc = "as_completed"
    /\ yielded = DOMAIN jobs
    /\ \E stuck \in {{}} \cup {{f} : f \in temp_files} : temp_files' = stuck
    /\ LET store == CacheStore(use_cache, Merge(results), cache_ttl)
       IN  /\ result' = Some(Merge(results))
           /\ log' = log (+) store.events
           /\ ops' = ops + store.cache_ops
    /\ pc' = "returned"
    /\ UNCHANGED <<config, outsideButOps, chunk_paths, created, queue, jobs,
                   results, yielded, writes, reordered, error, planned,
                   remote_calls>>

(* ------------------------------- Spec --------------------------------- *)

Next ==
    \/ ProcessFileMissing
    \/ ProcessFileRoute
    \/ SplitPdfUnreadable
    \/ SplitPdfZeroStep
    \/ SplitPdfWriteFails
    \/ SplitPdfOk
    \/ NonPdfReadFails
    \/ NonPdfRemoteFails
    \/ NonPdfOk
    \/ PoolRejected
    \/ SubmitAll
    \/ WorkerStart
    \/ AttemptReadFails
    \/ AttemptRemoteFails
    \/ AttemptSucceeds
    \/ SleepEnds
    \/ Exhausted
    \/ Collect
    \/ MergeAndReturn

Spec == Init /\ [][Next]_vars

\* The planning part of a call: process_file up to the return of _split_pdf.
NextSplit ==
    \/ ProcessFileRoute
    \/ SplitPdfUnreadable
    \/ SplitPdfZeroStep
    \/ SplitPdfWriteFails
    \/ SplitPdfOk

SpecSplit == InitSplit /\ [][NextSplit]_vars

(* --------------------- the pipeline, fairly scheduled ------------------ *)

\* A call of process_file on a readable PDF by a processor that has at least
\* one worker.
InitLive ==
    Start({2}, {1, 2}, 0..MaxLiveRetries, {TRUE}, {".pdf"}, 0..MaxLivePages)

\* A remote call or a file read in progress comes back, with a text or
\* with an exception.
AttemptEnds == AttemptReadFails \/ AttemptRemoteFails \/ AttemptSucceeds

NextLive ==
    \/ ProcessFileRoute
    \/ SplitPdfOk
    \/ SubmitAll
    \/ WorkerStart
    \/ AttemptReadFails
    \/ AttemptRemoteFails
    \/ AttemptSucceeds
    \/ SleepEnds
    \/ Exhausted
    \/ Collect
    \/ MergeAndReturn

\* The operating system schedules the calling thread and every worker
\* thread again and again, time.sleep ends, and every attempt comes back.
Fairness ==
    /\ WF_vars(ProcessFileRoute)
    /\ WF_vars(SplitPdfOk)
    /\ WF_vars(SubmitAll)
    /\ WF_vars(WorkerStart)
    /\ WF_vars(AttemptEnds)
    /\ WF_vars(SleepEnds)
    /\ WF_vars(Exhausted)
    /\ WF_vars(Collect)
    /\ WF_vars(MergeAndReturn)

SpecLive == InitLive /\ [][NextLive]_vars /\ Fairness

(* ------------------ process_file with cache arguments ------------------ *)

\* A call of process_file with use_cache False or True and cache_ttl None
\* or one hour, on a missing file, a PDF or a text file.
InitFlag ==
    /\ Begin({2}, {1}, {1}, BOOLEAN, {".pdf", ".txt"}, 0..MaxFlagPages)
    /\ use_cache \in BOOLEAN
    /\ cache_ttl \in {None, Some(1)}

NextFlag ==
    \/ ProcessFileMissing
    \/ ProcessFileRoute
    \/ SplitPdfUnreadable
    \/ SplitPdfWriteFails
    \/ SplitPdfOk
    \/ NonPdfReadFails
    \/ NonPdfRemoteFails
    \/ NonPdfOk
    \/ SubmitAll
    \/ WorkerStart
    \/ AttemptReadFails
    \/ AttemptRemoteFails
    \/ AttemptSucceeds
    \/ SleepEnds
    \/ Exhausted
    \/ Collect
    \/ MergeAndReturn

SpecFlag == InitFlag /\ [][NextFlag]_vars

(* -------------------------- process_from_url -------------------------- *)

\* How fetching the URL can fail: httpx.get raises on a connection failure,
\* resp.raise_for_status() raises on a 4xx or 5xx status.
FetchErrors == {"ConnectError", "HTTPStatusError"}

\* The state at the call of process_from_url: a processor with chunks of two
\* pages and one worker, and a document behind the URL.
InitUrl ==
    /\ pages_per_chunk = 2
    /\ max_threads = 1
    /\ max_retries \in {1, 2}
    /\ file_exists = FALSE
    /\ suffix = ""
    /\ DefaultArgs
    /\ total_pages \in 0..MaxUrlPages
    /\ pc = "caller"
    /\ Fresh
    /\ log = EmptyBag
    /\ entry = "fetch"
    /\ resp = ""
    /\ temp_file = "none"
    /\ folder_exists = FALSE
    /\ files = <<>>
    /\ next_file = 0
    /\ out_files = {}
    /\ NoCache

\* What leaves the fetch when it fails: the exception, as nothing in
\* process_from_url catches it.
FetchFailure(exc) ==
    /\ entry' = "raised"
    /\ result' = result
    /\ error' = exc

\* httpx.get(url) or resp.raise_for_status() raises.
UrlFetchFails ==
    /\ entry = "fetch"
    /\ \E exc \in FetchErrors :
         /\ resp' = exc
         /\ FetchFailure(exc)
    /\ log' = Logged(Event("info", "fetching", 0, 0))
    /\ UNCHANGED <<config, pc, chunk_paths, temp_files, created, queue, jobs,
                   results, yielded, writes, reordered, planned, remote_calls,
                   temp_file, folder_exists, files, next_file, out_files,
                   caches, cache_call, ops>>

\* The download succeeds: the body is written to temp_dir/remote_file.pdf
\* and process_file is called on it.
UrlFetchOk ==
    /\ entry = "fetch"
    /\ resp' = "ok"
    /\ temp_file' = "written"
    /\ file_exists' = TRUE
    /\ suffix' = ".pdf"
    /\ entry' = "process_file"
    /\ pc' = "process_file"
    /\ log' = Logged(Event("info", "fetching", 0, 0))
    /\ UNCHANGED <<pages_per_chunk, max_threads, max_retries, total_pages,
                   use_cache, cache_ttl,
                   chunk_paths, temp_files, created, queue, jobs, results,
                   yielded, writes, reordered, result, error, planned,
                   remote_calls, folder_exists, files, next_file, out_files,
                   caches, cache_call, ops>>

\* process_file has returned: the temporary file and directory are removed
\* and the text is returned.
UrlReturn ==
    /\ entry = "process_file"
    /\ resp = "ok"
    /\ pc = "returned"
    /\ temp_file' = "removed"
    /\ entry' = "returned"
    /\ UNCHANGED <<config, pc, chunk_paths, temp_files, created, queue, jobs,
                   results, yielded, writes, reordered, result, error, planned,
                   remote_calls, log, resp, folder_exists, files, next_file,
                   out_files, caches, cache_call, ops>>

\* process_file has raised: the exception leaves process_from_url before the
\* unlink, and the temporary file stays.
UrlPropagate ==
    /\ entry = "process_file"
    /\ resp = "ok"
    /\ pc = "raised"
    /\ entry' = "raised"
    /\ UNCHANGED <<config, pc, chunk_paths, temp_files, created, queue, jobs,
                   results, yielded, writes, reordered, result, error, planned,
                   remote_calls, log, resp, temp_file, folder_exists, files,
                   next_file, out_files, caches, cache_call, ops>>

NextUrl ==
    \/ UrlFetchFails
    \/ UrlFetchOk
    \/ ProcessFileRoute
    \/ SplitPdfUnreadable
    \/ SplitPdfWriteFails
    \/ SplitPdfOk
    \/ SubmitAll
    \/ WorkerStart
    \/ AttemptReadFails
    \/ AttemptRemoteFails
    \/ AttemptSucceeds
    \/ SleepEnds
    \/ Exhausted
    \/ Collect
    \/ MergeAndReturn
    \/ UrlReturn
    \/ UrlPropagate

SpecUrl == InitUrl /\ [][NextUrl]_vars

(* --------------------------- process_folder --------------------------- *)

\* The entries a folder can hold: an empty PDF, a PDF of one chunk, a text
\* file, and a file whose suffix is not in allowed_extensions.
FolderEntries ==
    {[suffix |-> ".pdf", pages |-> 0], [suffix |-> ".pdf", pages |-> 1],
     [suffix |-> ".txt", pages |-> 0], [suffix |-> ".xyz", pages |-> 0]}

RECURSIVE Listings(_)
Listings(n) ==
    IF n = 0 THEN {<<>>}
    ELSE Listings(n - 1)
         \cup {Append(l, f) : l \in {m \in Listings(n - 1) : Len(m) = n - 1},
                              f \in FolderEntries}

\* The state at the call of process_folder: a processor with chunks of two
\* pages, one worker and one attempt per chunk, and a folder.
InitFolder ==
    /\ pages_per_chunk = 2
    /\ max_threads = 1
    /\ max_retries = 1
    /\ file_exists = FALSE
    /\ suffix = ""
    /\ DefaultArgs
    /\ total_pages = 0
    /\ pc = "caller"
    /\ Fresh
    /\ log = EmptyBag
    /\ entry = "process_folder"
    /\ resp = ""
    /\ temp_file = "none"
    /\ folder_exists \in BOOLEAN
    /\ files \in (IF folder_exists THEN Listings(MaxFolderFiles) ELSE {<<>>})
    /\ next_file = 0
    /\ out_files = {}
    /\ NoCache

\* The folder is missing or no directory: logs the error and returns.
ProcessFolderMissing ==
    /\ entry = "process_folder"
    /\ ~folder_exists
    /\ log' = Logged(Event("error", "folder_missing", 0, 0))
    /\ entry' = "returned"
    /\ UNCHANGED <<config, pc, chunk_paths, temp_files, created, queue, jobs,
                   results, yielded, writes, reordered, result, error, planned,
                   remote_calls, resp, temp_file, folder_exists, files,
                   next_file, out_files, caches, cache_call, ops>>

\* The list comprehension keeps the entries with an allowed suffix.
ProcessFolderList ==
    /\ entry = "process_folder"
    /\ folder_exists
    /\ files' = SelectSeq(files, LAMBDA f : f.suffix \in DOMAIN allowed_extensions)
    /\ next_file' = 1
    /\ entry' = "loop"
    /\ UNCHANGED <<config, pc, chunk_paths, temp_files, created, queue, jobs,
                   results, yielded, writes, reordered, result, error, planned,
                   remote_calls, log, resp, temp_file, folder_exists,
                   out_files, caches, cache_call, ops>>

\* One round of the loop begins: process_file is called on the next file.
FolderCallProcessFile ==
    /\ entry = "loop"
    /\ next_file <= Len(files)
    /\ log' = Logged(Event("info", "processing_file", next_file, 0))
    /\ file_exists' = TRUE
    /\ suffix' = files[next_file].suffix
    /\ total_pages' = files[next_file].pages
    /\ pc' = "process_file"
    /\ chunk_paths' = <<>>
    /\ temp_files' = {}
    /\ created' = {}
    /\ queue' = <<>>
    /\ jobs' = <<>>
    /\ results' = <<>>
    /\ yielded' = {}
    /\ reordered' = FALSE
    /\ result' = None
    /\ error' = ""
    /\ planned' = 0
    /\ remote_calls' = 0
    /\ writes' = <<>>
    /\ entry' = "process_file"
    /\ UNCHANGED <<pages_per_chunk, max_threads, max_retries, use_cache,
                   cache_ttl, resp, temp_file,
                   folder_exists, files, next_file, out_files, caches,
                   cache_call, ops>>

\* process_file has raised: nothing in the loop catches the exception, and
\* it leaves process_folder with the later files untouched.
FolderFileRaises ==
    /\ entry = "process_file"
    /\ folder_exists
    /\ pc = "raised"
    /\ entry' = "raised"
    /\ UNCHANGED <<config, pc, chunk_paths, temp_files, created, queue, jobs,
                   results, yielded, writes, reordered, result, error, planned,
                   remote_calls, log, resp, temp_file, folder_exists, files,
                   next_file, out_files, caches, cache_call, ops>>

\* process_file has returned: a non-empty text is written to the output
\* file, an empty one is reported, and the loop goes on.
FolderFileReturns ==
    /\ entry = "process_file"
    /\ folder_exists
    /\ pc = "returned"
    /\ IF Truthy(result)
       THEN /\ out_files' = out_files \cup {next_file}
            /\ log' = Logged(Event("info", "saved_output", next_file, 0))
       ELSE /\ out_files' = out_files
            /\ log' = Logged(Event("warning", "no_output", next_file, 0))
    /\ next_file' = next_file + 1
    /\ entry' = "loop"
    /\ UNCHANGED <<config, pc, chunk_paths, temp_files, created, queue, jobs,
                   results, yielded, writes, reordered, result, error, planned,
                   remote_calls, resp, temp_file, folder_exists, files,
                   caches, cache_call, ops>>

\* The loop is over: process_folder returns None.
ProcessFolderReturn ==
    /\ entry = "loop"
    /\ next_file > Len(files)
    /\ entry' = "returned"
    /\ UNCHANGED <<config, pc, chunk_paths, temp_files, created, queue, jobs,
                   results, yielded, writes, reordered, result, error, planned,
                   remote_calls, log, resp, temp_file, folder_exists, files,
                   next_file, out_files, caches, cache_call, ops>>

NextFolder ==
    \/ ProcessFolderMissing
    \/ ProcessFolderList
    \/ FolderCallProcessFile
    \/ ProcessFileRoute
    \/ SplitPdfUnreadable
    \/ SplitPdfWriteFails
    \/ SplitPdfOk
    \/ NonPdfReadFails
    \/ NonPdfRemoteFails
    \/ NonPdfOk
    \/ SubmitAll
    \/ WorkerStart
    \/ AttemptReadFails
    \/ AttemptRemoteFails
    \/ AttemptSucceeds
    \/ SleepEnds
    \/ Exhausted
    \/ Collect
    \/ MergeAndReturn
    \/ FolderFileRaises
    \/ FolderFileReturns
    \/ ProcessFolderReturn

SpecFolder == InitFolder /\ [][NextFolder]_vars

(* --------------------------- CachingManager --------------------------- *)

\* Names the remote service gives to caches, and names a caller may pass.
CacheNames == {"c1", "c2"}

\* hours * 3600 for hours given as k fourteenths of an hour: a rational.
HoursTimes3600(k) == [num |-> k * 3600, den |-> 14]

\* math.floor of a rational with positive denominator.
Floor(q) == q.num \div q.den

\* int(x): the fraction is dropped, toward zero.
IntOf(q) == IF q.num >= 0 THEN q.num \div q.den ELSE -((-q.num) \div q.den)

\* How a call ends that has no try/except around its remote call.
UnguardedSwallows(ok) == "returned"
Unguarded(ok) == IF ok THEN "returned" ELSE "raised"

\* `except Exception` of CachingManager.delete_cache: a failed remote delete
\* is caught.
DeleteCaughtNever(ok) == IF ok THEN "returned" ELSE "raised"
DeleteCaught(ok) == "returned"

\* The record of a finished cache operation: its remote calls, whether the
\* remote call succeeded, how the operation ended, whether the named cache
\* existed before, and the hours given and TTL sent by update_cache_ttl.
Call(op, name, ok, outcome, existed, hours, ttl) ==
    [op |-> op, name |-> name, calls |-> 1, remote_ok |-> ok,
     outcome |-> outcome, existed |-> existed, hours |-> hours, ttl |-> ttl]

\* A session of cache operations on a service that holds the given caches.
StartCache(held) ==
    /\ pages_per_chunk = 5
    /\ max_threads = 4
    /\ max_retries = 2
    /\ file_exists = FALSE
    /\ suffix = ""
    /\ DefaultArgs
    /\ total_pages = 0
    /\ pc = "caller"
    /\ Fresh
    /\ log = EmptyBag
    /\ NoCaller
    /\ caches \in held
    /\ cache_call = None
    /\ ops = 0

InitCache == StartCache({{}})

\* One more cache operation may start.
MayCall == ops < MaxCacheOps

\* create_cache: one client.caches.create; the service names the new cache.
CreateCache ==
    /\ MayCall
    /\ \E ok \in BOOLEAN : \E name \in CacheNames :
         /\ ok => name \notin caches
         /\ caches' = IF ok THEN caches \cup {name} ELSE caches
         /\ cache_call' = Call("create_cache", name, ok, Unguarded(ok),
                               FALSE, 0, 0)
         /\ log' = IF ok /\ Unguarded(ok) = "returned"
                   THEN Logged(Event("info", "created_cache", name, 0))
                   ELSE log
    /\ ops' = ops + 1
    /\ UNCHANGED <<config, pc, chunk_paths, temp_files, created, queue, jobs,
                   results, yielded, writes, reordered, result, error, planned,
                   remote_calls, entry, resp, temp_file, folder_exists, files,
                   next_file, out_files>>

\* generate_with_cache: one client.models.generate_content on a cache name.
GenerateWithCache ==
    /\ MayCall
    /\ \E ok \in BOOLEAN : \E name \in CacheNames :
         /\ ok => name \in caches
         /\ cache_call' = Call("generate_with_cache", name, ok, Unguarded(ok),
                               name \in caches, 0, 0)
    /\ ops' = ops + 1
    /\ UNCHANGED <<config, pc, chunk_paths, temp_files, created, queue, jobs,
                   results, yielded, writes, reordered, result, error, planned,
                   remote_calls, log, entry, resp, temp_file, folder_exists,
                   files, next_file, out_files, caches>>

\* update_cache_ttl(name, hours) with hours = k/14: ttl_seconds is
\* int(hours * 3600), sent in one client.caches.update.
UpdateCacheTtlCall(name, k, ok) ==
    /\ MayCall
    /\ ok => name \in caches
    /\ cache_call' = Call("update_cache_ttl", name, ok, Unguarded(ok),
                          name \in caches, k, IntOf(HoursTimes3600(k)))
    /\ log' = IF ok /\ Unguarded(ok) = "returned"
              THEN Logged(Event("info", "updated_cache_ttl", name, k))
              ELSE log
    /\ ops' = ops + 1
    /\ UNCHANGED <<config, pc, chunk_paths, temp_files, created, queue, jobs,
                   results, yielded, writes, reordered, result, error, planned,
                   remote_calls, entry, resp, temp_file, folder_exists, files,
                   next_file, out_files, caches>>

\* update_cache_ttl with the default of 2.0 hours, or half an hour.
UpdateCacheTtl ==
    \E ok \in BOOLEAN : \E name \in CacheNames : \E k \in {7, 28} :
      UpdateCacheTtlCall(name, k, ok)

\* The events CachingManager.delete_cache logs, and the caches left.
ManagerDeleteLog(name, ok) ==
    IF ok THEN Event("info", "deleted_cache", name, 0)
    ELSE IF DeleteCaught(ok) = "returned"
         THEN Event("error", "delete_failed", name, 0)
         ELSE None

\* CachingManager.delete_cache: one client.caches.delete inside try/except;
\* the delete of a name the service does not hold fails.
ManagerDeleteCache ==
    /\ MayCall
    /\ \E ok \in BOOLEAN : \E name \in CacheNames :
         /\ ok => name \in caches
         /\ caches' = IF ok THEN caches \ {name} ELSE caches
         /\ cache_call' = Call("delete_cache", name, ok, DeleteCaught(ok),
                               name \in caches, 0, 0)
         /\ log' = IF ManagerDeleteLog(name, ok) = None THEN log
                   ELSE Logged(ManagerDeleteLog(name, ok))
    /\ ops' = ops + 1
    /\ UNCHANGED <<config, pc, chunk_paths, temp_files, created, queue, jobs,
                   results, yielded, writes, reordered, result, error, planned,
                   remote_calls, entry, resp, temp_file, folder_exists, files,
                   next_file, out_files>>

\* DocumentProcessor.delete_cache: CachingManager.delete_cache inside a
\* try/except of its own; the success message follows when the inner call
\* returned, the error message when it raised.
ProcessorDeleteCache ==
    /\ MayCall
    /\ \E ok \in BOOLEAN : \E name \in CacheNames :
         /\ ok => name \in caches
         /\ caches' = IF ok THEN caches \ {name} ELSE caches
         /\ cache_call' = Call("processor_delete_cache", name, ok,
                               IF DeleteCaught(ok) = "returned" \/ Caught("APIError")
                               THEN "returned" ELSE "raised",
                               name \in caches, 0, 0)
         /\ LET inner == IF ManagerDeleteLog(name, ok) = None THEN EmptyBag
                         ELSE SetToBag({ManagerDeleteLog(name, ok)})
                outer == IF DeleteCaught(ok) = "returned"
                         THEN Event("info", "cache_deleted_successfully", name, 0)
                         ELSE Event("error", "failed_to_delete_cache", name, 0)
            IN  log' = (log (+) inner) (+) SetToBag({outer})
    /\ ops' = ops + 1
    /\ UNCHANGED <<config, pc, chunk_paths, temp_files, created, queue, jobs,
                   results, yielded, writes, reordered, result, error, planned,
                   remote_calls, entry, resp, temp_file, folder_exists, files,
                   next_file, out_files>>

NextCache ==
    \/ CreateCache
    \/ GenerateWithCache
    \/ UpdateCacheTtl
    \/ ManagerDeleteCache
    \/ ProcessorDeleteCache

SpecCache == InitCache /\ [][NextCache]_vars

\* One update_cache_ttl call on a held cache or a missing one, with every
\* hours value from -MaxHourParts/14 to MaxHourParts/14.
InitTtl == StartCache({{"c1"}})

UpdateCacheTtlAnyHours ==
    /\ ops = 0
    /\ \E ok \in BOOLEAN : \E name \in CacheNames :
         \E k \in (-MaxHourParts)..MaxHourParts :
           UpdateCacheTtlCall(name, k, ok)

SpecTtl == InitTtl /\ [][UpdateCacheTtlAnyHours]_vars

(* ------------------------ vocabulary of the claims -------------------- *)

\* _process_large_pdf has returned through process_file.
LargePdfReturned == pc = "returned" /\ planned = 1

\* The text job i returned: response.text, or "" after exhausted retries.
ReturnedText(i) == IF jobs[i].ret = None THEN "" ELSE jobs[i].ret[1]

AllSucceeded == \A i \in 1..Len(jobs) : jobs[i].st = "succeeded"
SomeFailed == \E i \in 1..Len(jobs) : jobs[i].st = "failed"

\* The texts of the succeeded jobs k..n, in index order, empty ones included.
RECURSIVE SucceededTexts(_)
SucceededTexts(k) ==
    IF k > Len(jobs) THEN <<>>
    ELSE (IF jobs[k].st = "succeeded" THEN <<ReturnedText(k)>> ELSE <<>>)
         \o SucceededTexts(k + 1)

\* The non-empty texts of the succeeded jobs k..n, joined by a blank line
\* in increasing index.
RECURSIVE NonEmptyInOrder(_)
NonEmptyInOrder(k) ==
    IF k > Len(jobs) THEN ""
    ELSE LET rest == NonEmptyInOrder(k + 1)
             here == IF jobs[k].st = "succeeded" THEN ReturnedText(k) ELSE ""
         IN  IF here = "" THEN rest
             ELSE IF rest = "" THEN here
             ELSE here \o "\n\n" \o rest

CeilDiv(p, c) == (p + c - 1) \div c

\* _process_large_pdf has returned with at least one chunk, each of them
\* out of retries.
AllFailed ==
    /\ LargePdfReturned
    /\ Len(jobs) >= 1
    /\ \A i \in 1..Len(jobs) : jobs[i].st = "failed"

\* The log events that mark chunk i as out of retries: the only event the
\* retry loop logs is the warning of a failed attempt, so these are the
\* warnings of its last allowed attempt, "Attempt max_retries/max_retries".
ExhaustionEvents(i) ==
    CopiesIn(Event("warning", "attempt_failed", i, max_retries), log)

\* The generate_content calls made by the jobs 1..n.
RECURSIVE SumCalls(_, _)
SumCalls(js, n) == IF n = 0 THEN 0 ELSE js[n].calls + SumCalls(js, n - 1)

\* The messages of the two cache blocks of process_file in the log.
CacheRequests == CopiesIn(Event("info", "cache_requested", 0, 0), log)
CacheStores == CopiesIn(Event("info", "storing_result", 0, TtlShown(cache_ttl)), log)

\* What a call on a PDF without pages logs: nothing.
ZeroPageLog == EmptyBag

(* ------------------------------- claims ------------------------------- *)

\* C1 as stated: when every chunk succeeds, the merged text is all per-chunk
\* texts joined with "\n\n" in index order, whatever the completion order.
C1_AllTextsJoined ==
    (LargePdfReturned /\ AllSucceeded)
        => result = Some(Join(SucceededTexts(1)))

\* C1, amended: when every chunk succeeds, the merged text is the non-empty
\* per-chunk texts joined with "\n\n" in increasing index (an empty text is
\* skipped), whatever order the chunks completed in.
C1_OrderPreserved ==
    (LargePdfReturned /\ AllSucceeded) => result = Some(NonEmptyInOrder(1))

\* Three chunks, all succeeded with text, a later one handed over before an
\* earlier one, and the merge in index order.
C1_Witness ==
    /\ LargePdfReturned /\ AllSucceeded /\ reordered
    /\ Len(jobs) = 3
    /\ result = Some("a\n\nb\n\nc")

\* C2: for P >= 0 and C > 0 _split_pdf returns ceil(P/C) chunks, chunk i
\* (0-based) covers [i*C, min((i+1)*C, P)), the chunks are contiguous and
\* disjoint, their union is [0, P), and P = 0 gives no chunk.
C2_ChunkCoverage ==
    (pc = "create_pool" /\ pages_per_chunk > 0) =>
        LET n == Len(chunk_paths)
            Pages(k) == chunk_paths[k].start .. (chunk_paths[k].stop - 1)
        IN  /\ n = CeilDiv(total_pages, pages_per_chunk)
            /\ \A k \in 1..n :
                 /\ chunk_paths[k].start = (k - 1) * pages_per_chunk
                 /\ chunk_paths[k].stop = Min(k * pages_per_chunk, total_pages)
                 /\ chunk_paths[k].start < chunk_paths[k].stop
            /\ \A k \in 1..(n - 1) : chunk_paths[k + 1].start = chunk_paths[k].stop
            /\ \A j, k \in 1..n : j # k => Pages(j) \cap Pages(k) = {}
            /\ UNION {Pages(k) : k \in 1..n} = 0..(total_pages - 1)
            /\ (total_pages = 0 => chunk_paths = <<>>)

\* Seven pages in chunks of three: [0,3), [3,6), [6,7).
C2_Witness ==
    /\ pc = "create_pool"
    /\ total_pages = 7 /\ pages_per_chunk = 3
    /\ Len(chunk_paths) = 3
    /\ chunk_paths[3].start = 6 /\ chunk_paths[3].stop = 7

\* C3 as stated: with some chunks failed and the others succeeded, the call
\* does not raise and returns all texts of the succeeded chunks joined with
\* "\n\n" in index order.
C3_SucceededTextsJoined ==
    (planned = 1 /\ SomeFailed) =>
        /\ pc # "raised"
        /\ (pc = "returned" => result = Some(Join(SucceededTexts(1))))

\* C3, amended: with some chunks failed and the others succeeded, the call
\* does not raise and returns the non-empty texts of the succeeded chunks
\* joined with "\n\n" in index order; a failed chunk contributes nothing and
\* neither removes nor reorders the others.
C3_PartialFailure ==
    (planned = 1 /\ SomeFailed) =>
        /\ pc # "raised"
        /\ (pc = "returned" => result = Some(NonEmptyInOrder(1)))

\* Three chunks, the middle one out of retries, the outer ones merged.
C3_Witness ==
    /\ LargePdfReturned
    /\ Len(jobs) = 3
    /\ jobs[1].st = "succeeded" /\ jobs[2].st = "failed"
    /\ jobs[3].st = "succeeded"
    /\ jobs[2].attempt = 2
    /\ result = Some("a\n\nc")

\* C4: at most max_threads chunk jobs are inside _process_pdf_chunk at any
\* time, a job in its retry delay included.
C4_BoundedConcurrency ==
    Cardinality({i \in 1..Len(jobs) : jobs[i].st \in {"try", "sleep"}})
        <= max_threads

\* Two workers busy, one of them in its retry delay, a third chunk waiting.
C4_Witness ==
    /\ max_threads = 2
    /\ Len(jobs) = 3
    /\ jobs[1].st = "sleep" /\ jobs[2].st = "try"
    /\ queue = <<3>>

\* C5: every chunk of the splitter gets exactly one job, which has run to its
\* end when the pipeline returns, and no chunk is ever inside two workers.
C5_ExactlyOneJob ==
    /\ \A i \in 1..Len(jobs) :
         /\ jobs[i].runners <= 1
         /\ jobs[i].starts + Cardinality({k \in 1..Len(queue) : queue[k] = i}) = 1
    /\ LargePdfReturned =>
         /\ Len(jobs) = Len(chunk_paths)
         /\ yielded = 1..Len(chunk_paths)
         /\ \A i \in 1..Len(jobs) :
              jobs[i].st \in Terminal /\ jobs[i].starts = 1 /\ jobs[i].runners = 0

\* Three chunks through two workers, all run once and handed over.
C5_Witness ==
    /\ LargePdfReturned
    /\ Len(chunk_paths) = 3 /\ max_threads = 2
    /\ \A i \in 1..3 : jobs[i].starts = 1

\* C6 as stated: a chunk makes k remote calls when attempt k is the first to
\* succeed, max_retries calls when none succeeds, and never more.
C6_CallsEqualAttempts ==
    \A i \in 1..Len(jobs) :
      /\ jobs[i].calls <= max_retries
      /\ (jobs[i].st = "succeeded" => jobs[i].calls = jobs[i].attempt)
      /\ (jobs[i].st = "failed" => jobs[i].calls = max_retries)

\* C6, amended: a chunk makes k attempts when attempt k <= max_retries is the
\* first to succeed and max_retries attempts when none succeeds; an attempt
\* makes one remote call unless reading the chunk file fails first, so the
\* remote calls never exceed the attempts, nor max_retries.
C6_BoundedAttempts ==
    \A i \in 1..Len(jobs) :
      /\ jobs[i].calls <= jobs[i].attempt
      /\ jobs[i].attempt <= max_retries
      /\ (jobs[i].st = "succeeded" =>
            /\ jobs[i].attempt >= 1
            /\ jobs[i].sleeps = jobs[i].attempt - 1
            /\ jobs[i].calls >= 1)
      /\ (jobs[i].st = "failed" =>
            /\ jobs[i].attempt = max_retries
            /\ jobs[i].sleeps = max_retries)

\* A chunk whose first attempt could not read the file and whose second
\* attempt succeeded: two attempts, one remote call.
C6_Witness ==
    \E i \in 1..Len(jobs) :
      /\ jobs[i].st = "succeeded"
      /\ jobs[i].attempt = 2
      /\ jobs[i].calls = 1

\* C7: a chunk whose every attempt failed, for whatever reason, ends failed
\* with the empty string, each failure logged, and never raises to the pool.
C7_ExhaustionReturnsEmpty ==
    \A i \in 1..Len(jobs) :
      /\ jobs[i].st # "raised"
      /\ (jobs[i].st \in Terminal /\ jobs[i].sleeps = jobs[i].attempt) =>
            /\ jobs[i].st = "failed"
            /\ jobs[i].ret = Some("")
            /\ \A a \in 1..jobs[i].attempt :
                 CopiesIn(Event("warning", "attempt_failed", i, a), log) = 1

\* A chunk out of retries after one unreadable file and one remote error.
C7_Witness ==
    \E i \in 1..Len(jobs) :
      /\ jobs[i].st = "failed"
      /\ jobs[i].attempt = 2
      /\ jobs[i].calls = 1
      /\ i \in yielded /\ results[i] = Some("")

\* C8 as stated: whenever the call has returned or raised, every temporary
\* chunk file it created has been removed.
C8_TempFilesReleased ==
    pc \in {"returned", "raised"} => created \cap temp_files = {}

\* C9 as stated: a chunk size of zero or less ends planning of a readable
\* document in a reported configuration error, with no chunk list returned.
C9_ConfigError ==
    (pages_per_chunk <= 0 /\ planned = 1 /\ error # "PdfReadError") =>
        pc = "raised" /\ error = "ValueError"

\* C10: process_file on a missing path returns "", raises nothing, plans no
\* chunks and makes no remote call.
C10_MissingPath ==
    ~file_exists =>
        /\ pc \in {"process_file", "returned"}
        /\ planned = 0
        /\ remote_calls = 0
        /\ (pc = "returned" => result = Some(""))

\* The call on a missing path has returned, its error logged.
C10_Witness ==
    /\ ~file_exists
    /\ pc = "returned"
    /\ CopiesIn(Event("error", "file_missing", 0, 0), log) = 1

\* C11 as stated: whenever fetching the URL fails, by a connection failure
\* or an HTTP error status, process_from_url returns "" and raises nothing.
C11_FetchFailureReturnsEmpty ==
    resp \in FetchErrors =>
        /\ entry = "returned"
        /\ result = Some("")
        /\ error = ""

\* C12 as stated: process_file on a file whose extension is not in
\* allowed_extensions returns "", whether or not the file exists.
C12_UnsupportedReturnsEmpty ==
    (suffix \notin DOMAIN allowed_extensions /\ pc \in {"returned", "raised"})
        => (pc = "returned" /\ result = Some(""))

\* C13 as stated: a file that cannot be processed never keeps process_folder
\* from going on: the call ends by returning, after every kept file of the
\* folder has been through process_file.
C13_FolderContinues ==
    (folder_exists /\ entry \in {"returned", "raised"}) =>
        /\ entry = "returned"
        /\ next_file = Len(files) + 1

\* C14 as stated: a failure while the bytes of one chunk are written by
\* _split_pdf stays with that chunk: the call on the document does not
\* raise, and its sibling chunks are still dispatched.
C14_ChunkWriteFailureLocal ==
    (suffix = ".pdf" /\ planned = 1 /\ error = "OSError") =>
        /\ pc # "raised"
        /\ Len(jobs) = Len(SplitPdfChunks(total_pages, pages_per_chunk))

C16_OneCallAndPropagate ==
    (cache_call # None
       /\ cache_call.op \in {"create_cache", "generate_with_cache",
                              "update_cache_ttl"}) =>
        /\ cache_call.calls = 1
        /\ (cache_call.outcome = "raised") = ~cache_call.remote_ok
        /\ (cache_call.outcome = "returned") = cache_call.remote_ok

\* update_cache_ttl on a name the service does not hold: one call, raised.
C16_Witness ==
    /\ cache_call # None
    /\ cache_call.op = "update_cache_ttl"
    /\ ~cache_call.existed /\ ~cache_call.remote_ok
    /\ cache_call.calls = 1
    /\ cache_call.outcome = "raised"

\* C17 as stated: the TTL update_cache_ttl sends is floor(hours * 3600)
\* whole seconds for every hours value, negative ones included.
C17_TtlIsFloor ==
    (cache_call # None /\ cache_call.op = "update_cache_ttl") =>
        LET q == HoursTimes3600(cache_call.hours)
            t == cache_call.ttl
        IN  t * q.den <= q.num /\ q.num < (t + 1) * q.den

\* C17, amended: the TTL sent is hours * 3600 with its fraction dropped
\* toward zero: the floor for hours >= 0 (2.0 gives 7200, 0.5 gives 1800),
\* the ceiling for hours < 0.
C17_TtlTruncates ==
    (cache_call # None /\ cache_call.op = "update_cache_ttl") =>
        LET q == HoursTimes3600(cache_call.hours)
            t == cache_call.ttl
        IN  /\ IF q.num >= 0
               THEN t * q.den <= q.num /\ q.num < (t + 1) * q.den
               ELSE (t - 1) * q.den < q.num /\ q.num <= t * q.den
            /\ (cache_call.hours = 28 => t = 7200)
            /\ (cache_call.hours = 7 => t = 1800)

\* hours = -1/14: -257.14... seconds are sent as -257, not as -258.
C17_Witness ==
    /\ cache_call # None
    /\ cache_call.op = "update_cache_ttl"
    /\ cache_call.hours = -1
    /\ cache_call.ttl = -257
    /\ cache_call.remote_ok

\* C18 as stated: when all n chunks run out of retries the merged result is
\* "" and exactly n retry-exhausted events are logged, one per chunk,
\* whatever max_retries is.
C18_ExhaustedEventPerChunk ==
    AllFailed =>
        /\ result = Some("")
        /\ \A i \in 1..Len(jobs) : ExhaustionEvents(i) = 1

\* C19 as stated: a call whose chunks all failed and a call on a document
\* without pages both return "", and the events logged by the first differ
\* from those logged by the second, for every max_retries.
C19_AllFailDistinguishable ==
    /\ (LargePdfReturned /\ total_pages = 0) =>
          (result = Some("") /\ log = ZeroPageLog)
    /\ AllFailed => (result = Some("") /\ log # ZeroPageLog)

\* C20: every slot of `results` is assigned at most once, exactly the slots
\* of the futures handed over so far are assigned, and when the merge has
\* run every job is terminal and every slot has been assigned exactly once.
C20_SlotsWrittenOnce ==
    /\ Len(writes) = Len(results)
    /\ \A i \in 1..Len(writes) :
         /\ writes[i] <= 1
         /\ (writes[i] = 1) = (i \in yielded)
         /\ (writes[i] = 0) = (results[i] = None)
    /\ LargePdfReturned =>
         /\ Len(results) = Len(chunk_paths)
         /\ \A i \in 1..Len(chunk_paths) :
              /\ writes[i] = 1
              /\ results[i] # None
              /\ jobs[i].st \in Terminal

\* Three chunks handed over out of index order, each slot assigned once.
C20_Witness ==
    /\ LargePdfReturned /\ reordered
    /\ Len(chunk_paths) = 3
    /\ \A i \in 1..3 : writes[i] = 1

\* C21: under fair scheduling, with every attempt coming back, a pool that
\* was given its jobs leads to the return of _process_large_pdf with every
\* job terminal, and a pending job leads to a terminal one.
C21_Termination ==
    /\ (pc = "as_completed") ~>
           (pc = "returned" /\ \A i \in 1..Len(jobs) : jobs[i].st \in Terminal)
    /\ \A i \in 1..3 :
         (i <= Len(jobs) /\ jobs[i].st = "pending") ~>
             (i <= Len(jobs) /\ jobs[i].st \in Terminal)

\* Three chunks through one worker, the last of them out of retries after
\* its failed attempt and its delay, and the call returned.
C21_Witness ==
    /\ LargePdfReturned
    /\ max_threads = 1 /\ max_retries = 1
    /\ Len(jobs) = 3
    /\ jobs[3].st = "failed" /\ jobs[3].attempt = 1 /\ jobs[3].sleeps = 1

\* C22: use_cache and cache_ttl show in the log only. Whatever they are, no
\* cache operation is made, a present file is always processed, the remote
\* calls are those of the processing, and the text returned is the one the
\* remote responses give: the merge of the slots for a PDF, response.text
\* otherwise.
C22_CacheArgumentsInert ==
    /\ caches = {} /\ cache_call = None /\ ops = 0
    /\ (~use_cache => (CacheRequests = 0 /\ CacheStores = 0))
    /\ (pc = "returned" /\ file_exists /\ suffix = ".pdf") =>
          /\ planned = 1
          /\ result = Some(Merge(results))
          /\ remote_calls = SumCalls(jobs, Len(jobs))
    /\ (pc = "returned" /\ file_exists /\ suffix # ".pdf") =>
          /\ remote_calls = 1
          /\ result # None /\ result[1] \in Replies(1)
    /\ (pc = "returned" /\ ~file_exists) =>
          (result = Some("") /\ remote_calls = 0)

\* A two-chunk PDF processed with use_cache=True and cache_ttl=1: both
\* cache messages logged, two remote calls, the merged text, no cache
\* operation.
C22_Witness ==
    /\ use_cache /\ cache_ttl = Some(1)
    /\ LargePdfReturned
    /\ result = Some("a\n\nb")
    /\ remote_calls = 2
    /\ CacheRequests = 1 /\ CacheStores = 1
    /\ ops = 0 /\ caches = {}

\* C23 as stated: DocumentProcessor.delete_cache logs "Cache <name> deleted
\* successfully" only when the remote delete succeeded: for every name, the
\* success messages never outnumber the successful remote deletes.
C23_SuccessOnlyWhenDeleted ==
    \A name \in CacheNames :
      CopiesIn(Event("info", "cache_deleted_successfully", name, 0), log)
          <= CopiesIn(Event("info", "deleted_cache", name, 0), log)

\* C24 as stated: the retry delay is waited between attempts only, never
\* after the last failed attempt: a chunk out of its max_retries >= 1
\* attempts has waited max_retries - 1 times when its job is terminal, and
\* at no time more often than that.
C24_WaitsBetweenAttemptsOnly ==
    \A i \in 1..Len(jobs) :
      max_retries >= 1 =>
        /\ jobs[i].sleeps <= max_retries - 1
        /\ (jobs[i].st = "failed" => jobs[i].sleeps = max_retries - 1)

====
